---- MODULE Spec2Model ----
(***************************************************************************)
(* Control-flow resolution pass of the Carbon executable semantics         *)
(* (executable_semantics/interpreter/resolve_control_flow.cpp).            *)
(*                                                                         *)
(* The AST is a sequence of nodes in source (pre-)order: node i is the     *)
(* record ast[i], its parent is ast[i].parent (0 for a top-level           *)
(* declaration) and the children of a node are the nodes naming it as      *)
(* parent, in increasing order.  A node's number doubles as its source     *)
(* location and as its identity (the address a resolved target holds).     *)
(*                                                                         *)
(* The recursion of ResolveControlFlow is carried by `stack`: the calls    *)
(* still to be made, innermost first.  Visiting a node pops its call and   *)
(* pushes the calls its case of the switch makes, in the order it makes    *)
(* them.  FATAL_COMPILATION_ERROR ends the process: it records the         *)
(* diagnostic and nothing runs after it.                                   *)
(***************************************************************************)
EXTENDS Integers, Sequences, FiniteSets, TLC

\* Largest number of AST nodes (declarations and statements) of a program.
MaxNodes == 5

\* std::nullopt for a loop / an unset resolved target.
NoNode == 0

ReturnKinds == {"Omitted", "Auto", "Expression"}

DeclarationKinds == {"FunctionDeclaration", "ClassDeclaration", "ChoiceDeclaration"}

NoopKinds == {"ExpressionStatement", "Assign", "VariableDefinition", "Run", "Await"}

\* The statement kinds the enumerated programs are built from.
InputStatementKinds ==
    {"Return", "Break", "Continue", "If", "Block", "While", "Match", "Continuation",
     "ExpressionStatement"}

----------------------------------------------------------------------------
\* AST nodes

DeclarationNode(k, p, rt) ==
    [kind |-> k, parent |-> p, return_term |-> rt, is_omitted_expression |-> FALSE]

StatementNode(k, p, om) ==
    [kind |-> k, parent |-> p, return_term |-> "None", is_omitted_expression |-> om]

\* Children of node p (p = 0: the top-level declarations), in source order.
RECURSIVE ChildrenFrom(_, _, _)
ChildrenFrom(a, p, i) ==
    IF i > Len(a) THEN << >>
    ELSE IF a[i].parent = p THEN << i >> \o ChildrenFrom(a, p, i + 1)
    ELSE ChildrenFrom(a, p, i + 1)

Children(a, p) == ChildrenFrom(a, p, 1)

NumChildren(a, p) == Cardinality({i \in 1..Len(a) : a[i].parent = p})

\* ReturnTerm::is_auto / ReturnTerm::is_omitted
is_auto(rt) == rt = "Auto"

is_omitted(rt) == rt = "Omitted"

----------------------------------------------------------------------------
\* The programs the pass is run on: every well-formed AST of at most
\* MaxNodes nodes.

\* The ancestors of the last node, the last node and the top level.
RECURSIVE Spine(_, _)
Spine(a, n) == IF n = NoNode THEN {NoNode} ELSE {n} \cup Spine(a, a[n].parent)

\* A node that has all the children its kind needs.  The enumerated blocks
\* and matches are not empty, and a function without a body is enumerated
\* with one return term only: the pass never reads it.
Complete(a, n) ==
    CASE a[n].kind \in {"While", "Continuation", "If", "Block", "Match"} ->
            NumChildren(a, n) >= 1
      [] a[n].kind = "FunctionDeclaration" ->
            NumChildren(a, n) >= 1 \/ a[n].return_term = "Omitted"
      [] OTHER -> TRUE

\* The parent p can take one more child, a declaration or a statement.
Accepts(a, p, decl) ==
    IF p = NoNode THEN decl
    ELSE CASE a[p].kind = "ClassDeclaration" -> decl
           [] a[p].kind = "FunctionDeclaration" -> ~decl /\ NumChildren(a, p) = 0
           [] a[p].kind \in {"While", "Continuation"} -> ~decl /\ NumChildren(a, p) = 0
           [] a[p].kind = "If" -> ~decl /\ NumChildren(a, p) <= 1
           [] a[p].kind \in {"Block", "Match"} -> ~decl
           [] OTHER -> FALSE

\* Where the next node in source order can hang: below a node of the spine
\* that accepts it, every deeper node of the spine being complete.
Parents(a, decl) ==
    {p \in Spine(a, Len(a)) :
        /\ Accepts(a, p, decl)
        /\ \A q \in Spine(a, Len(a)) : q > p => Complete(a, q)}

\* The nodes that can follow the nodes of a in source order.
NextNodes(a) ==
    {DeclarationNode("FunctionDeclaration", p, rt) :
        p \in Parents(a, TRUE), rt \in ReturnKinds}
    \cup {DeclarationNode(k, p, "None") :
        p \in Parents(a, TRUE), k \in DeclarationKinds \ {"FunctionDeclaration"}}
    \cup {StatementNode("Return", p, om) :
        p \in Parents(a, FALSE), om \in BOOLEAN}
    \cup {StatementNode(k, p, FALSE) :
        p \in Parents(a, FALSE), k \in InputStatementKinds \ {"Return"}}

\* Every node has the children its kind needs.  Parents lets a node follow
\* only complete ones, so the last node alone can still lack a child.
WellFormed(a) == IF a = << >> THEN TRUE ELSE Complete(a, Len(a))

----------------------------------------------------------------------------
VARIABLES
    ast,        \* the AST the pass runs on
    pc,         \* "start", "running", "done" or "failed"
    stack,      \* the calls of ResolveControlFlow still to be made
    data,       \* the FunctionData of the function being analyzed
    target,     \* Return::function() / Break::loop() / Continue::loop() per node
    writes,     \* how many times set_function / set_loop was called on a node
    visited,    \* the nodes ResolveControlFlow was called on, in order
    error       \* the fatal diagnostic: [kind, loc], kind "None" when there is none

vars == << ast, pc, stack, data, target, writes, visited, error >>

NoError == [kind |-> "None", loc |-> NoNode]

NoData == [declaration |-> NoNode, saw_return_in_auto |-> FALSE]

\* A pending call ResolveControlFlow(node, loop, function); the overload on
\* declarations takes the node alone.
Call(n, loop, function) == [node |-> n, loop |-> loop, function |-> function]

RECURSIVE Calls(_, _, _)
Calls(nodes, loop, function) ==
    IF nodes = << >> THEN << >>
    ELSE << Call(Head(nodes), loop, function) >> \o Calls(Tail(nodes), loop, function)

\* ast is a well-formed program that extends a, of at most MaxNodes nodes.
RECURSIVE IsProgramFrom(_)
IsProgramFrom(a) ==
    \/ WellFormed(a) /\ ast = a
    \/ Len(a) < MaxNodes /\ \E node \in NextNodes(a) : IsProgramFrom(Append(a, node))

Init ==
    /\ IsProgramFrom(<< >>)
    /\ pc = "start"
    /\ stack = << >>
    /\ data = NoData
    /\ target = [n \in 1..Len(ast) |-> NoNode]
    /\ writes = [n \in 1..Len(ast) |-> 0]
    /\ visited = << >>
    /\ error = NoError

----------------------------------------------------------------------------
\* The call on top of the stack and what is left once it returns.

Top == Head(stack)

Rest == Tail(stack)

Running(kinds) == pc = "running" /\ ast[Top.node].kind \in kinds

\* The call on top returns after making the calls `calls`, in that order.
Proceed(calls) ==
    /\ stack' = calls \o Rest
    /\ pc' = IF calls \o Rest = << >> THEN "done" ELSE "running"
    /\ visited' = Append(visited, Top.node)
    /\ error' = error

\* Mutant: the diagnostic is recorded and the traversal goes on.
ReportAndGoOn(loc, message) ==
    /\ error' = [kind |-> message, loc |-> loc]
    /\ pc' = IF Rest = << >> THEN "done" ELSE "running"
    /\ visited' = Append(visited, Top.node)
    /\ stack' = Rest

\* FATAL_COMPILATION_ERROR(loc) << message: the process exits.
FATAL_COMPILATION_ERROR(loc, message) ==
    /\ error' = [kind |-> message, loc |-> loc]
    /\ pc' = "failed"
    /\ visited' = Append(visited, Top.node)
    /\ stack' = stack

ReturnOutsideFunction == "return is not within a function body"

MultipleReturnsInAuto ==
    "Only one return is allowed in a function with an auto return type"

ShouldProvideValue ==
    "should provide a return value"

ShouldNotProvideValue ==
    "should not provide a return value"

BreakOutsideLoop == "break is not within a loop body"

ContinueOutsideLoop == "continue is not within a loop body"

\* Return, Break and Continue write their resolved target.
SetTarget(n, t) ==
    /\ target' = [target EXCEPT ![n] = t]
    /\ writes' = [writes EXCEPT ![n] = @ + 1]

----------------------------------------------------------------------------
\* ResolveControlFlow(Nonnull<Statement*>, loop, function)

\* The second return of a function with a deduced return type.
SecondReturnInAuto(function_return, function_data) ==
    is_auto(function_return) /\ function_data.saw_return_in_auto

\* Mutant: the flag is never raised.
MarkReturnSeenNever(function_return, function_data) == function_data

\* (*function)->saw_return_in_auto = true, for an auto return term only.
MarkReturnSeen(function_return, function_data) ==
    IF is_auto(function_return)
    THEN [function_data EXCEPT !.saw_return_in_auto = TRUE]
    ELSE function_data

\* Mutant: the value presence is never compared.
PresenceMismatchNever(ret, function_return) == FALSE

\* ret.is_omitted_expression() != function_return.is_omitted()
PresenceMismatch(ret, function_return) ==
    ret.is_omitted_expression # is_omitted(function_return)

MismatchMessage(function_return) ==
    IF is_omitted(function_return) THEN ShouldNotProvideValue ELSE ShouldProvideValue

\* Mutant: the loop is used without being tested.
LoopMissingNever(loop) == FALSE

\* !loop.has_value()
LoopMissing(loop) == loop = NoNode

\* Mutant: a loop nested in a loop keeps the outer loop.
WhileBodyLoopOuter(statement, loop) == IF loop = NoNode THEN statement ELSE loop

\* The loop argument of the call on a While's body.
WhileBodyLoop(statement, loop) == statement

\* Mutant: the continuation body keeps the enclosing loop.
ContinuationLoopKept(loop) == loop

\* The loop and function arguments of the call on a Continuation's body.
ContinuationLoop(loop) == NoNode

ContinuationFunction(function) == FALSE

\* Mutant: the else block is not resolved.
IfBlocksThenOnly(statement) == << Head(Children(ast, statement)) >>

\* then_block(), then *else_block() when it has a value.
IfBlocks(statement) == Children(ast, statement)

\* Mutant: the value presence is validated before the auto-return rule.
ResolveReturnPresenceFirst ==
    /\ Running({"Return"})
    /\ UNCHANGED ast
    /\ LET statement == Top.node IN
       IF ~Top.function
       THEN /\ FATAL_COMPILATION_ERROR(statement, ReturnOutsideFunction)
            /\ UNCHANGED << data, target, writes >>
       ELSE LET function_return == ast[data.declaration].return_term IN
            IF PresenceMismatch(ast[statement], function_return)
            THEN /\ FATAL_COMPILATION_ERROR(statement, MismatchMessage(function_return))
                 /\ data' = data
                 /\ SetTarget(statement, data.declaration)
            ELSE IF SecondReturnInAuto(function_return, data)
            THEN /\ FATAL_COMPILATION_ERROR(statement, MultipleReturnsInAuto)
                 /\ UNCHANGED << data, target, writes >>
            ELSE /\ data' = MarkReturnSeen(function_return, data)
                 /\ SetTarget(statement, data.declaration)
                 /\ Proceed(<< >>)

\* Mutant: the return is bound only once its value presence is validated.
ResolveReturnBindLast ==
    /\ Running({"Return"})
    /\ UNCHANGED ast
    /\ LET statement == Top.node IN
       IF ~Top.function
       THEN /\ FATAL_COMPILATION_ERROR(statement, ReturnOutsideFunction)
            /\ UNCHANGED << data, target, writes >>
       ELSE LET function_return == ast[data.declaration].return_term IN
            IF SecondReturnInAuto(function_return, data)
            THEN /\ FATAL_COMPILATION_ERROR(statement, MultipleReturnsInAuto)
                 /\ UNCHANGED << data, target, writes >>
            ELSE /\ data' = MarkReturnSeen(function_return, data)
                 /\ IF PresenceMismatch(ast[statement], function_return)
                    THEN /\ FATAL_COMPILATION_ERROR(statement,
                                                    MismatchMessage(function_return))
                         /\ UNCHANGED << target, writes >>
                    ELSE /\ SetTarget(statement, data.declaration)
                         /\ Proceed(<< >>)

ResolveReturn ==
    /\ Running({"Return"})
    /\ UNCHANGED ast
    /\ LET statement == Top.node IN
       IF ~Top.function
       THEN /\ FATAL_COMPILATION_ERROR(statement, ReturnOutsideFunction)
            /\ UNCHANGED << data, target, writes >>
       ELSE LET function_return == ast[data.declaration].return_term IN
            IF SecondReturnInAuto(function_return, data)
            THEN /\ FATAL_COMPILATION_ERROR(statement, MultipleReturnsInAuto)
                 /\ UNCHANGED << data, target, writes >>
            ELSE /\ data' = MarkReturnSeen(function_return, data)
                 /\ SetTarget(statement, data.declaration)
                 /\ IF PresenceMismatch(ast[statement], function_return)
                    THEN FATAL_COMPILATION_ERROR(statement,
                                                 MismatchMessage(function_return))
                    ELSE Proceed(<< >>)

ResolveBreak ==
    /\ Running({"Break"})
    /\ UNCHANGED << ast, data >>
    /\ IF LoopMissing(Top.loop)
       THEN /\ FATAL_COMPILATION_ERROR(Top.node, BreakOutsideLoop)
            /\ UNCHANGED << target, writes >>
       ELSE /\ SetTarget(Top.node, Top.loop)
            /\ Proceed(<< >>)

ResolveContinue ==
    /\ Running({"Continue"})
    /\ UNCHANGED << ast, data >>
    /\ IF LoopMissing(Top.loop)
       THEN /\ FATAL_COMPILATION_ERROR(Top.node, ContinueOutsideLoop)
            /\ UNCHANGED << target, writes >>
       ELSE /\ SetTarget(Top.node, Top.loop)
            /\ Proceed(<< >>)

\* then_block, then else_block when there is one, in the same context.
ResolveIf ==
    /\ Running({"If"})
    /\ Proceed(Calls(IfBlocks(Top.node), Top.loop, Top.function))
    /\ UNCHANGED << ast, data, target, writes >>

ResolveBlock ==
    /\ Running({"Block"})
    /\ Proceed(Calls(Children(ast, Top.node), Top.loop, Top.function))
    /\ UNCHANGED << ast, data, target, writes >>

ResolveWhile ==
    /\ Running({"While"})
    /\ Proceed(Calls(Children(ast, Top.node),
                     WhileBodyLoop(Top.node, Top.loop), Top.function))
    /\ UNCHANGED << ast, data, target, writes >>

\* One call per clause: a Match node's children are its clauses' statements.
ResolveMatch ==
    /\ Running({"Match"})
    /\ Proceed(Calls(Children(ast, Top.node), Top.loop, Top.function))
    /\ UNCHANGED << ast, data, target, writes >>

ResolveContinuation ==
    /\ Running({"Continuation"})
    /\ Proceed(Calls(Children(ast, Top.node),
                     ContinuationLoop(Top.loop), ContinuationFunction(Top.function)))
    /\ UNCHANGED << ast, data, target, writes >>

ResolveOtherStatement ==
    /\ Running(NoopKinds)
    /\ Proceed(<< >>)
    /\ UNCHANGED << ast, data, target, writes >>

----------------------------------------------------------------------------
\* ResolveControlFlow(Nonnull<Declaration*>)

\* Mutant: the flag outlives the function it was raised for.
NewFunctionDataKeepFlag(function) ==
    [declaration |-> function, saw_return_in_auto |-> data.saw_return_in_auto]

\* FunctionData data = {.declaration = &function};
NewFunctionData(function) ==
    [declaration |-> function, saw_return_in_auto |-> FALSE]

\* The loop argument of the call on a function's body.
FunctionBodyLoop == NoNode

ResolveFunctionDeclaration ==
    /\ Running({"FunctionDeclaration"})
    /\ IF Children(ast, Top.node) # << >>
       THEN /\ data' = NewFunctionData(Top.node)
            /\ Proceed(Calls(Children(ast, Top.node), FunctionBodyLoop, TRUE))
       ELSE /\ data' = data
            /\ Proceed(<< >>)
    /\ UNCHANGED << ast, target, writes >>

ResolveClassDeclaration ==
    /\ Running({"ClassDeclaration"})
    /\ Proceed(Calls(Children(ast, Top.node), NoNode, FALSE))
    /\ UNCHANGED << ast, data, target, writes >>

ResolveOtherDeclaration ==
    /\ Running(DeclarationKinds \ {"FunctionDeclaration", "ClassDeclaration"})
    /\ Proceed(<< >>)
    /\ UNCHANGED << ast, data, target, writes >>

\* ResolveControlFlow(AST&)
ResolveAST ==
    /\ pc = "start"
    /\ stack' = Calls(Children(ast, NoNode), NoNode, FALSE)
    /\ pc' = IF Children(ast, NoNode) = << >> THEN "done" ELSE "running"
    /\ UNCHANGED << ast, data, target, writes, visited, error >>

Next ==
    \/ ResolveAST
    \/ ResolveFunctionDeclaration
    \/ ResolveClassDeclaration
    \/ ResolveOtherDeclaration
    \/ ResolveReturn
    \/ ResolveBreak
    \/ ResolveContinue
    \/ ResolveIf
    \/ ResolveBlock
    \/ ResolveWhile
    \/ ResolveMatch
    \/ ResolveContinuation
    \/ ResolveOtherStatement

Spec == Init /\ [][Next]_vars

----------------------------------------------------------------------------
\* Lexical structure of the AST, read off the parent links alone.

Nodes == 1..Len(ast)

\* The kind of node n; the top level has none.
Kind(n) == IF n = NoNode THEN "None" ELSE ast[n].kind

Returns == {n \in Nodes : Kind(n) = "Return"}

LoopExits == {n \in Nodes : Kind(n) \in {"Break", "Continue"}}

Visited == {visited[i] : i \in 1..Len(visited)}

\* The pass is over: it completed or it raised its diagnostic.
Ended == pc \in {"done", "failed"}

\* The function whose body the statement n belongs to; NoNode when a
\* continuation body lies between n and the function.
RECURSIVE EnclosingFunction(_)
EnclosingFunction(n) ==
    LET p == ast[n].parent IN
    CASE Kind(p) = "FunctionDeclaration" -> p
      [] Kind(p) = "Continuation" -> NoNode
      [] OTHER -> EnclosingFunction(p)

\* The innermost While around n in the same function or continuation body.
RECURSIVE EnclosingLoop(_)
EnclosingLoop(n) ==
    LET p == ast[n].parent IN
    CASE Kind(p) = "While" -> p
      [] Kind(p) \in {"FunctionDeclaration", "Continuation"} -> NoNode
      [] OTHER -> EnclosingLoop(p)

\* The nearest ancestor of n of the given kind, NoNode when there is none.
RECURSIVE Nearest(_, _)
Nearest(n, kind) ==
    LET p == ast[n].parent IN
    IF p = NoNode THEN NoNode
    ELSE IF Kind(p) = kind THEN p
    ELSE Nearest(p, kind)

ReturnTermOf(n) == ast[EnclosingFunction(n)].return_term

InAuto(n) == EnclosingFunction(n) # NoNode /\ is_auto(ReturnTermOf(n))

\* The returns of the same function that come before n in source order.
EarlierReturns(n) ==
    {m \in Returns : m < n /\ EnclosingFunction(m) = EnclosingFunction(n)}

Diagnostic(message, n) == [kind |-> message, loc |-> n]

OutsideLoop(n) == IF Kind(n) = "Break" THEN BreakOutsideLoop ELSE ContinueOutsideLoop

Mismatch(n) ==
    IF is_omitted(ReturnTermOf(n)) THEN ShouldNotProvideValue ELSE ShouldProvideValue

\* The statement n breaks one of the four rules.
Violates(n) ==
    \/ /\ n \in Returns
       /\ \/ EnclosingFunction(n) = NoNode
          \/ InAuto(n) /\ EarlierReturns(n) # {}
          \/ ast[n].is_omitted_expression # is_omitted(ReturnTermOf(n))
    \/ n \in LoopExits /\ EnclosingLoop(n) = NoNode

----------------------------------------------------------------------------
\* C1: when the pass completes without a diagnostic, every Return, Break and
\* Continue of the program (in a function at top level or in a class, at any
\* nesting depth) holds a resolved target of the right kind and its target
\* was written exactly once; no target is ever written twice.
C1_EveryTargetSetOnce ==
    /\ \A n \in Nodes : writes[n] <= 1
    /\ pc = "done" =>
         \A n \in Nodes :
            (n \in Returns \/ n \in LoopExits) =>
            /\ writes[n] = 1
            /\ target[n] # NoNode
            /\ Kind(target[n]) = IF n \in Returns THEN "FunctionDeclaration" ELSE "While"

\* A completed pass over a program that holds a Return nested in an If,
\* Block, Match or While and a Break or Continue, both bound.
C1_Witness ==
    /\ pc = "done"
    /\ \E r \in Returns, b \in LoopExits :
          /\ Kind(ast[r].parent) \in {"If", "Block", "Match", "While"}
          /\ target[r] # NoNode /\ target[b] # NoNode

\* C2: in a function with an auto return term the first Return in source
\* order passes the one-return rule, raises the saw-return flag and is bound
\* to the function (and resolves without a diagnostic when it supplies a
\* value); every other Return of the same body, wherever it is nested, fails
\* with the multiple-returns diagnostic and stays unbound; so a pass that
\* completes has at most one Return per auto function.
C2_OneReturnInAuto ==
    /\ Ended => \A n \in Visited :
          (n \in Returns /\ InAuto(n)) =>
             IF EarlierReturns(n) # {}
             THEN error = Diagnostic(MultipleReturnsInAuto, n) /\ target[n] = NoNode
             ELSE /\ error # Diagnostic(MultipleReturnsInAuto, n)
                  /\ target[n] = EnclosingFunction(n)
                  /\ data.declaration = EnclosingFunction(n) => data.saw_return_in_auto
                  /\ ~ast[n].is_omitted_expression => error.loc # n
    /\ pc = "done" =>
          \A n \in Nodes : (n \in Returns /\ InAuto(n)) => EarlierReturns(n) = {}

\* The second Return sits in the else branch of the If whose then branch
\* holds the first.
C2_Witness ==
    /\ error.kind = MultipleReturnsInAuto
    /\ \E m \in EarlierReturns(error.loc) :
          /\ ast[m].parent = ast[error.loc].parent
          /\ Kind(ast[m].parent) = "If"

\* C3: in a function whose return term is not auto, every Return is bound to
\* the function, and it resolves without a diagnostic exactly when its
\* value-omitted flag equals the function's is-omitted flag; otherwise the
\* presence-mismatch diagnostic is raised at it.
C3_PresenceMatchesContract ==
    Ended => \A n \in Visited :
       (n \in Returns /\ EnclosingFunction(n) # NoNode /\ ~InAuto(n)) =>
          /\ target[n] = EnclosingFunction(n)
          /\ (error.loc = n) <=>
                (ast[n].is_omitted_expression # is_omitted(ReturnTermOf(n)))
          /\ error.loc = n => error.kind = Mismatch(n)

\* Two value-supplying Returns of a value-returning function, both bound,
\* in a completed pass.
C3_Witness ==
    /\ pc = "done"
    /\ \E n \in Returns :
          /\ ReturnTermOf(n) = "Expression"
          /\ EarlierReturns(n) # {}
          /\ \A m \in EarlierReturns(n) \cup {n} :
                ~ast[m].is_omitted_expression /\ target[m] = EnclosingFunction(n)

\* C4: a Break or Continue that is bound is bound to the nearest While among
\* its ancestors: If, Block and Match are transparent and an outer While
\* never wins over an inner one.
C4_InnermostLoop ==
    \A n \in Nodes :
       (n \in LoopExits /\ target[n] # NoNode) => target[n] = Nearest(n, "While")

\* A Break bound to the inner of two nested While loops, below a Match or If.
C4_Witness ==
    \E n \in LoopExits :
       /\ target[n] # NoNode
       /\ Nearest(target[n], "While") # NoNode

\* C5: a Break or Continue with no While between it and its function fails
\* with the outside-loop diagnostic, however deeply it is nested in If, Block
\* and Match, and its target stays unset; the call on a function body is
\* made with no loop.
C5_OutsideLoop ==
    /\ Ended => \A n \in Visited :
          (n \in LoopExits /\ Nearest(n, "While") = NoNode) =>
             /\ error = Diagnostic(OutsideLoop(n), n)
             /\ target[n] = NoNode
             /\ writes[n] = 0
    /\ \A i \in 1..Len(stack) :
          Kind(ast[stack[i].node].parent) = "FunctionDeclaration" =>
             stack[i].loop = NoNode

\* A Break that fails two levels below the function body root.
C5_Witness ==
    /\ error.kind = BreakOutsideLoop
    /\ Kind(ast[error.loc].parent) \in {"If", "Block", "Match"}
    /\ Kind(ast[ast[error.loc].parent].parent) \in {"If", "Block", "Match"}

\* C6: the call on a continuation body is made with no loop and no function:
\* a Return inside a continuation body fails with the return-outside-function
\* diagnostic; a Break or Continue inside it is bound to the nearest While
\* when that While lies inside the continuation body, and fails with the
\* outside-loop diagnostic otherwise, also when a While encloses the
\* continuation.
C6_ContinuationClearsContext ==
    /\ Ended => \A n \in Visited :
          Nearest(n, "Continuation") # NoNode =>
             /\ n \in Returns =>
                   /\ error = Diagnostic(ReturnOutsideFunction, n)
                   /\ target[n] = NoNode
             /\ n \in LoopExits =>
                   IF Nearest(n, "While") > Nearest(n, "Continuation")
                   THEN target[n] = Nearest(n, "While") /\ error.loc # n
                   ELSE error = Diagnostic(OutsideLoop(n), n) /\ target[n] = NoNode
    /\ \A i \in 1..Len(stack) :
          Kind(ast[stack[i].node].parent) = "Continuation" =>
             stack[i].loop = NoNode /\ ~stack[i].function

\* A Break bound to a While inside a continuation that itself sits in a While.
C6_Witness ==
    \E n \in LoopExits :
       /\ target[n] # NoNode
       /\ Nearest(n, "Continuation") # NoNode
       /\ Nearest(Nearest(n, "Continuation"), "While") # NoNode

\* C7: each member function of a class is resolved with a FunctionData of
\* its own, the flag lowered, and with no loop; a Return of a method is bound
\* to that method only, and in an auto method it fails with the
\* multiple-returns diagnostic exactly when an earlier Return of the same
\* method exists, whatever the sibling methods hold.
Methods == {f \in Nodes : Kind(f) = "FunctionDeclaration" /\ ast[f].parent # NoNode}

C7_MethodsIndependent ==
    /\ Ended => \A n \in Visited :
          (n \in Returns /\ EnclosingFunction(n) \in Methods) =>
             /\ target[n] \in {NoNode, EnclosingFunction(n)}
             /\ InAuto(n) =>
                   ((error = Diagnostic(MultipleReturnsInAuto, n))
                       <=> (EarlierReturns(n) # {}))
    /\ (pc = "running" /\ ast[Top.node].parent \in Methods) =>
          /\ data = [declaration |-> ast[Top.node].parent, saw_return_in_auto |-> FALSE]
          /\ Top.loop = NoNode
          /\ Top.function

\* Two auto methods of one class, one Return each, both bound to their own
\* method in a completed pass.
C7_Witness ==
    /\ pc = "done"
    /\ \E n \in Returns, m \in Returns :
          /\ n # m
          /\ InAuto(n) /\ InAuto(m)
          /\ EnclosingFunction(n) \in Methods /\ EnclosingFunction(m) \in Methods
          /\ EnclosingFunction(n) # EnclosingFunction(m)
          /\ ast[EnclosingFunction(n)].parent = ast[EnclosingFunction(m)].parent
          /\ target[n] = EnclosingFunction(n) /\ target[m] = EnclosingFunction(m)

\* C8: nodes are visited in source order; a diagnostic is raised at the first
\* statement in that order that breaks a rule, carries its location, and
\* nothing after that statement is visited or has its target set; without a
\* diagnostic no visited statement breaks a rule.
C8_HaltsAtFirstViolation ==
    /\ \A i \in 1..Len(visited) : visited[i] = i
    /\ error # NoError =>
          /\ error.loc = visited[Len(visited)]
          /\ Violates(error.loc)
          /\ \A m \in Nodes :
                /\ m < error.loc => ~Violates(m)
                /\ m > error.loc => target[m] = NoNode /\ writes[m] = 0
    /\ pc = "done" => \A n \in Visited : ~Violates(n)

\* Two violations, in two declarations: the first is reported, the second
\* declaration is never visited.
C8_Witness ==
    /\ error # NoError
    /\ \E m \in Nodes :
          /\ Violates(m)
          /\ m > error.loc
          /\ m \notin Visited
          /\ \E d \in Nodes : Kind(d) \in DeclarationKinds /\ error.loc < d /\ d < m

\* C9: a Return is checked for a function context first, for the one-return
\* rule of auto functions second and for value presence last, and the first
\* check that fails gives the diagnostic; a While changes nothing for a
\* Return.
C9_ReturnChecksInOrder ==
    Ended => \A n \in Visited :
       n \in Returns =>
       IF EnclosingFunction(n) = NoNode
       THEN error = Diagnostic(ReturnOutsideFunction, n)
       ELSE IF InAuto(n) /\ EarlierReturns(n) # {}
       THEN error = Diagnostic(MultipleReturnsInAuto, n)
       ELSE IF ast[n].is_omitted_expression # is_omitted(ReturnTermOf(n))
       THEN error = Diagnostic(Mismatch(n), n)
       ELSE error.loc # n

\* A second Return of an auto function, inside a While and omitting its
\* value: it breaks two rules and the one-return rule is reported.
C9_Witness ==
    /\ error.kind = MultipleReturnsInAuto
    /\ ast[error.loc].is_omitted_expression
    /\ Nearest(error.loc, "While") # NoNode

\* C10: at a failure the offending statement is unbound for the
\* outside-function, multiple-returns and outside-loop diagnostics; for the
\* presence mismatch it is already bound to its function, and the saw-return
\* flag of an auto function is already raised; every Return, Break and
\* Continue before the offending statement keeps its target.
C10_StateAtFailure ==
    error # NoError =>
       LET n == error.loc IN
       /\ error.kind \in {ReturnOutsideFunction, MultipleReturnsInAuto,
                          BreakOutsideLoop, ContinueOutsideLoop} =>
             target[n] = NoNode /\ writes[n] = 0
       /\ error.kind = MultipleReturnsInAuto =>
             data = [declaration |-> EnclosingFunction(n), saw_return_in_auto |-> TRUE]
       /\ error.kind \in {ShouldProvideValue, ShouldNotProvideValue} =>
             /\ target[n] = EnclosingFunction(n)
             /\ target[n] # NoNode
             /\ writes[n] = 1
             /\ data.declaration = target[n]
             /\ data.saw_return_in_auto = is_auto(ReturnTermOf(n))
       /\ \A m \in Nodes :
             (m < n /\ (m \in Returns \/ m \in LoopExits)) =>
                target[m] # NoNode /\ writes[m] = 1

\* An auto function's Return that omits its value fails after a Break before
\* it was bound.
C10_Witness ==
    /\ error.kind = ShouldProvideValue
    /\ InAuto(error.loc)
    /\ target[error.loc] # NoNode
    /\ \E m \in LoopExits : m < error.loc /\ target[m] # NoNode
====
